---- MODULE Spec2Model ----
(***************************************************************************)
(* Model of discord-playtime-bot.py: the SQLite Store (totals,             *)
(* daily_totals, guild_usernames), the PresenceTracker (active sessions,   *)
(* the heartbeat task) and the two gateway handlers on_ready and           *)
(* on_presence_update.                                                     *)
(*                                                                         *)
(* The asyncio event loop runs one coroutine at a time and switches only   *)
(* at an await.  on_presence_update has no await and a heartbeat tick has  *)
(* none between the top of the while loop and asyncio.sleep, so each is    *)
(* one action; on_ready awaits tree.sync() and is two.                     *)
(*                                                                         *)
(* The clock is in whole seconds, so int(total_seconds()) in stop is       *)
(* exact on every value the model produces.                                *)
(***************************************************************************)
EXTENDS Integers, Sequences, FiniteSets, TLC

\* ------------------------------------------------------------------------
\* Program constants
\* ------------------------------------------------------------------------
HEARTBEAT_SECONDS == 60

\* Seconds in a calendar day (datetime.date arithmetic)
DaySeconds == 86400

\* ------------------------------------------------------------------------
\* Bounds of the model
\* ------------------------------------------------------------------------
\* the clock moves in steps of Quantum seconds
Quantum == 30
\* the length of a run: its clock steps plus its presence events
Budget == 4
\* seconds before local midnight at which a run starts
StartBeforeMidnight == 60
\* on_ready events in a run (the first, plus reconnects)
MaxReady == 2

\* the clock value a run starts at: StartBeforeMidnight seconds before day 1
StartClock == DaySeconds - StartBeforeMidnight

\* ------------------------------------------------------------------------
\* The gateway's view: members, guilds, activities
\* ------------------------------------------------------------------------
Users == {1, 2}
Activities == {"Chess", "Go"}
\* None: no tracked activity (get_playing_name returns None)
None == "None"

\* bot.guilds, each guild by its guild.members; user 1 is in both guilds
Guilds == << <<1, 2>>, <<1>> >>

\* str(member)
MemberName(u) == IF u = 1 THEN "ann" ELSE "bob"


\* ------------------------------------------------------------------------
\* State
\* ------------------------------------------------------------------------
VARIABLES
    now,          \* now_utc(), seconds
    closed,       \* bot.is_closed()
    readyFired,   \* on_ready events dispatched so far
    readyPending, \* on_ready handlers suspended in await tree.sync()
    task,         \* tracker.task: 0 is None, else an index of tasks
    tasks,        \* the heartbeat tasks ever created: [pc, wake]
    active,       \* tracker.active: user -> its sessions [activity, started], in dict order
    db,           \* the committed store: guild_usernames, totals, daily_totals
    events,       \* presence events dispatched so far
    printed,      \* "Heartbeat error: ..." lines printed so far
    sessTick,     \* history: seconds heartbeat ticks committed to the current session
    sessLast,     \* history: when the current session was last credited (or started)
    passed,       \* history: per (user, activity), sum of the amounts add_time committed
    lastOp,       \* history: the operation that produced this state
    calls,        \* Store methods called directly so far (slash commands, add_time)
    reply         \* the last direct Store call: its arguments and what it returned

vars == <<now, closed, readyFired, readyPending, task, tasks, active, db, events, printed,
          sessTick, sessLast, passed, lastOp, calls, reply>>

Keys == Users \X Activities

\* ------------------------------------------------------------------------
\* Helpers (lines 22-39)
\* ------------------------------------------------------------------------
\* to_local(d).date() for the default TIMEZONE "UTC": the calendar day of a
\* timestamp, as a day ordinal.  isoformat() writes it as zero-padded
\* YYYY-MM-DD, whose text order is the order of the ordinals.
iso_date_local(d) == d \div DaySeconds

\* ------------------------------------------------------------------------
\* Store (lines 45-121)
\* ------------------------------------------------------------------------
EmptyTable == [k \in {} |-> 0]

\* _init_db on a fresh file: three empty tables
EmptyDb == [guild_usernames |-> EmptyTable, totals |-> EmptyTable,
            daily_totals |-> EmptyTable]

\* a mutant of UpsertName: the statement is not executed
UpsertNameSkip(d, u, name, t) == d

\* INSERT INTO guild_usernames ... ON CONFLICT(user_id) DO UPDATE SET
\* username=excluded.username, updated_at=excluded.updated_at
UpsertName(d, u, name, t) ==
    [d EXCEPT !.guild_usernames =
        (u :> [username |-> name, updated_at |-> t]) @@ d.guild_usernames]

\* a mutant of UpsertTotals: DO UPDATE SET seconds = excluded.seconds
UpsertTotalsOverwrite(d, u, a, s) ==
    [d EXCEPT !.totals = (<<u, a>> :> s) @@ d.totals]

\* INSERT INTO totals ... ON CONFLICT(user_id, activity) DO UPDATE SET
\* seconds = seconds + excluded.seconds
UpsertTotals(d, u, a, s) ==
    LET k == <<u, a>>
        old == d.totals
    IN  [d EXCEPT !.totals =
            IF k \in DOMAIN old THEN [old EXCEPT ![k] = old[k] + s]
            ELSE (k :> s) @@ old]

\* INSERT INTO daily_totals ... ON CONFLICT(user_id, activity, day) DO UPDATE
\* SET seconds = seconds + excluded.seconds
UpsertDaily(d, u, a, day, s) ==
    LET k == <<u, a, day>>
        old == d.daily_totals
    IN  [d EXCEPT !.daily_totals =
            IF k \in DOMAIN old THEN [old EXCEPT ![k] = old[k] + s]
            ELSE (k :> s) @@ old]

\* Where a storage error can strike in add_time: 0 nowhere, 1..3 at the
\* first, second, third cur.execute, 4 at con.commit().
FailPoints == 0..4

\* a mutant of TxnCommit: every statement commits by itself (autocommit)
TxnAutoCommit(pre, steps, failAt) ==
    IF failAt = 0 THEN steps[3]
    ELSE IF failAt = 1 THEN pre
    ELSE steps[failAt - 1]

\* The connection's transaction: sqlite3 opens it implicitly at the first
\* INSERT, con.commit() publishes the three statements together, and an
\* exception before the commit returns leaves the connection unreferenced,
\* which rolls the transaction back.
TxnCommit(pre, steps, failAt) ==
    IF failAt = 0 THEN steps[3] ELSE pre

\* a mutant of add_time: without the "if seconds <= 0: return" of line 88
add_time_unguarded(d, u, name, a, s, when, t, failAt) ==
    LET w   == IF when = <<>> THEN t ELSE when[1]
        day == iso_date_local(w)
        w1  == UpsertName(d, u, name, t)
        w2  == UpsertTotals(w1, u, a, s)
        w3  == UpsertDaily(w2, u, a, day, s)
    IN  [db |-> TxnCommit(d, <<w1, w2, w3>>, failAt), raised |-> failAt # 0]

\* Store.add_time(user_id, username, activity, seconds, when) at clock t.
\* when is <<>> for None, else <<timestamp>>.  The result is the committed
\* store and whether the call raised.
add_time(d, u, name, a, s, when, t, failAt) ==
    IF s <= 0 THEN [db |-> d, raised |-> FALSE]
    ELSE
        LET w   == IF when = <<>> THEN t ELSE when[1]
            day == iso_date_local(w)
            w1  == UpsertName(d, u, name, t)
            w2  == UpsertTotals(w1, u, a, s)
            w3  == UpsertDaily(w2, u, a, day, s)
        IN  [db |-> TxnCommit(d, <<w1, w2, w3>>, failAt), raised |-> failAt # 0]

\* ------------------------------------------------------------------------
\* PresenceTracker (lines 238-290)
\* ------------------------------------------------------------------------
\* activity in self.active[user_id]
HasActivity(sessions, a) == \E i \in 1..Len(sessions) : sessions[i].activity = a

\* self.active.get(user_id, {}).  A user without a key and a user whose
\* dict is empty are one state, <<>>: every read of self.active (line 261,
\* 266, 279-280, 422) treats the two alike.
SessionsOf(act, u) == act[u]

IsActive(act, u, a) == HasActivity(SessionsOf(act, u), a)

\* started_at of the first entry for the activity
StartedAt(act, u, a) ==
    LET S == SessionsOf(act, u)
        i == CHOOSE j \in 1..Len(S) : S[j].activity = a /\ \A h \in 1..(j - 1) : S[h].activity # a
    IN  S[i].started

\* a mutant of start: the assignment without the membership test
start_always(act, u, a, t) ==
    [act EXCEPT ![u] = Append(SelectSeq(@, LAMBDA e : e.activity # a),
                              [activity |-> a, started |-> t])]

\* PresenceTracker.start
start(act, u, a, t) ==
    IF HasActivity(act[u], a) THEN act
    ELSE [act EXCEPT ![u] = Append(@, [activity |-> a, started |-> t])]

\* a mutant of stop: pop(activity, <an instant before the run>) in place of None
stop_default_epoch(act, u, a, t) ==
    IF IsActive(act, u, a)
    THEN [active |-> [act EXCEPT ![u] = SelectSeq(@, LAMBDA e : e.activity # a)],
          elapsed |-> t - StartedAt(act, u, a)]
    ELSE [active |-> act, elapsed |-> t - (StartClock - Quantum)]

\* a mutant of stop: self.active.pop(user_id) in place of the pop of the activity
stop_all(act, u, a, t) ==
    IF IsActive(act, u, a)
    THEN [active |-> [act EXCEPT ![u] = <<>>], elapsed |-> t - StartedAt(act, u, a)]
    ELSE [active |-> act, elapsed |-> 0]

\* PresenceTracker.stop: the session map after the pop, and the return value
stop(act, u, a, t) ==
    IF IsActive(act, u, a)
    THEN [active |-> [act EXCEPT ![u] = SelectSeq(@, LAMBDA e : e.activity # a)],
          elapsed |-> t - StartedAt(act, u, a)]
    ELSE [active |-> act, elapsed |-> 0]


\* a mutant of MemberWork: a snapshot taken before the sessions were closed,
\* in which every member still plays Chess
MemberWorkStale(act, m) ==
    <<[u |-> m, name |-> MemberName(m), a |-> "Chess"]>>

\* The (user, username, activity) triples one tick passes to add_time, in
\* the order of the three nested loops: a member's sessions in dict order.
MemberWork(act, m) ==
    LET S == SessionsOf(act, m)
    IN  [i \in 1..Len(S) |-> [u |-> m, name |-> MemberName(m), a |-> S[i].activity]]

RECURSIVE MembersWork(_, _)
MembersWork(act, ms) ==
    IF ms = <<>> THEN <<>>
    ELSE MemberWork(act, Head(ms)) \o MembersWork(act, Tail(ms))

RECURSIVE GuildsWork(_, _)
GuildsWork(act, gs) ==
    IF gs = <<>> THEN <<>>
    ELSE MembersWork(act, Head(gs)) \o GuildsWork(act, Tail(gs))

TickWork(act) == GuildsWork(act, Guilds)

\* the element of a one-element set: binds a computed value once
Only(S) == CHOOSE x \in S : TRUE

\* The body of the try block of one tick from position i of the work list:
\* add_time(member.id, username, activity, HEARTBEAT_SECONDS) for each entry;
\* the call at position failIdx raises at failAt, which ends the tick.
\* The result is the committed store and the log of the calls made.
RECURSIVE RunTick(_, _, _, _, _, _)
RunTick(d, W, i, failIdx, failAt, t) ==
    IF i > Len(W) THEN [db |-> d, log |-> <<>>]
    ELSE Only({
        LET entry == [u |-> W[i].u, a |-> W[i].a, amt |-> HEARTBEAT_SECONDS,
                      ok |-> ~r.raised]
        IN  IF r.raised THEN [db |-> r.db, log |-> <<entry>>]
            ELSE Only({[db |-> rest.db, log |-> <<entry>> \o rest.log] :
                         rest \in {RunTick(r.db, W, i + 1, failIdx, failAt, t)}})
        : r \in {add_time(d, W[i].u, W[i].name, W[i].a, HEARTBEAT_SECONDS, <<>>, t,
                          IF i = failIdx THEN failAt ELSE 0)}})

\* a mutant of TickAwaits: an await after every add_time of the loops
TickAwaitsEach(W) == 0..Len(W)

\* How far into its work list a tick runs before the coroutine can be
\* suspended.  The loops of lines 277-284 hold no await; the first await of
\* a pass is asyncio.sleep at line 285, after the last entry.
TickAwaits(W) == {Len(W)}

\* a mutant of after_tick: no except Exception branch, the error ends the task
after_tick_unhandled(raised, t) ==
    IF raised THEN [pc |-> "failed", wake |-> t]
    ELSE [pc |-> "sleep", wake |-> t + HEARTBEAT_SECONDS]

\* Where a tick leaves the task: asleep in the try block after a clean pass,
\* asleep in the except Exception branch after print(f"Heartbeat error: {e}")
after_tick(raised, t) ==
    [pc |-> IF raised THEN "errsleep" ELSE "sleep", wake |-> t + HEARTBEAT_SECONDS]

\* a mutant of on_ready_task: create_task without the "is None" test
on_ready_task_always(tk, ts, t) ==
    [task |-> Len(ts) + 1, tasks |-> Append(ts, [pc |-> "ready", wake |-> t])]

\* on_ready, after tree.sync(): if tracker.task is None, create the task
on_ready_task(tk, ts, t) ==
    IF tk = 0
    THEN [task |-> Len(ts) + 1, tasks |-> Append(ts, [pc |-> "ready", wake |-> t])]
    ELSE [task |-> tk, tasks |-> ts]

\* ------------------------------------------------------------------------
\* History bookkeeping
\* ------------------------------------------------------------------------
\* seconds the log's successful calls gave (u, a)
RECURSIVE LogSum(_, _, _)
LogSum(log, u, a) ==
    IF log = <<>> THEN 0
    ELSE (IF Head(log).u = u /\ Head(log).a = a /\ Head(log).ok THEN Head(log).amt ELSE 0)
         + LogSum(Tail(log), u, a)

\* add_time calls the log holds for (u, a), raised or not
RECURSIVE LogCount(_, _, _)
LogCount(log, u, a) ==
    IF log = <<>> THEN 0
    ELSE (IF Head(log).u = u /\ Head(log).a = a THEN 1 ELSE 0)
         + LogCount(Tail(log), u, a)

\* lastOp: the operation, whether it called stop, whether stop found a
\* session, whether it called start on a session already active, whether it
\* raised, where its add_time failed, and whether the error kept it from a
\* start that was due
NoOp == [op |-> "other", stopped |-> FALSE, had |-> FALSE, again |-> FALSE,
         err |-> FALSE, fail |-> 0, skip |-> FALSE]

ZeroKeys == [k \in Keys |-> 0]

\* reply before any direct Store call
NoReply == [op |-> "none"]

\* ------------------------------------------------------------------------
\* Init: the module has been loaded (store = Store(DB_PATH) on a fresh file,
\* tracker = PresenceTracker(store)) and bot.run has not delivered an event.
\* ------------------------------------------------------------------------
Init ==
    /\ now = StartClock
    /\ closed = FALSE
    /\ readyFired = 0
    /\ readyPending = 0
    /\ task = 0
    /\ tasks = <<>>
    /\ active = [u \in Users |-> <<>>]
    /\ db = EmptyDb
    /\ events = 0
    /\ printed = 0
    /\ sessTick = ZeroKeys
    /\ sessLast = ZeroKeys
    /\ passed = ZeroKeys
    /\ lastOp = NoOp
    /\ calls = 0
    /\ reply = NoReply

\* ------------------------------------------------------------------------
\* Actions
\* ------------------------------------------------------------------------
\* on_ready up to "await tree.sync()"
on_ready_begin ==
    /\ UNCHANGED <<calls, reply>>
    /\ ~closed
    /\ readyFired < MaxReady
    /\ readyFired' = readyFired + 1
    /\ readyPending' = readyPending + 1
    /\ lastOp' = NoOp
    /\ UNCHANGED <<now, closed, task, tasks, active, db, events,
                   printed, sessTick, sessLast, passed>>

\* on_ready from the return of tree.sync() (or its except branch) to the end
on_ready_finish ==
    /\ UNCHANGED <<calls, reply>>
    /\ readyPending > 0
    /\ readyPending' = readyPending - 1
    /\ LET r == on_ready_task(task, tasks, now)
       IN  /\ task' = r.task
           /\ tasks' = r.tasks
    /\ lastOp' = [NoOp EXCEPT !.op = "on_ready_finish"]
    /\ UNCHANGED <<now, closed, readyFired, active, db, events,
                   printed, sessTick, sessLast, passed>>

\* what a run has used of its length
Spent == events + (now - StartClock) \div Quantum

\* a heartbeat task is runnable: just created, or its sleep is over
Due(tk) == tk.pc = "ready" \/ (tk.pc \in {"sleep", "errsleep"} /\ now >= tk.wake)

\* a task suspended in an await: wait_until_ready, the two sleeps, or an
\* await inside the loops of a tick (the code has none, see TickAwaits)
Alive(tk) == tk.pc \in {"ready", "sleep", "errsleep", "inloop"}

\* One pass of the while loop of heartbeat with bot.is_closed() false: the
\* try block up to asyncio.sleep, or the except Exception branch up to its
\* asyncio.sleep.  failIdx = 0: no add_time raises.
heartbeat_tick(i, failIdx, failAt) ==
    /\ UNCHANGED <<calls, reply>>
    /\ i \in 1..Len(tasks)
    /\ Due(tasks[i])
    /\ ~closed
    /\ \E W \in {TickWork(active)} : \E cut \in TickAwaits(W) :
          /\ failIdx \in 0..cut
          /\ \E r \in {RunTick(db, SubSeq(W, 1, cut), 1, failIdx, failAt, now)} :
                /\ db' = r.db
                /\ tasks' = [tasks EXCEPT ![i] =
                       IF cut < Len(W) /\ failIdx = 0 THEN [pc |-> "inloop", wake |-> now]
                       ELSE after_tick(failIdx # 0, now)]
                /\ printed' = IF failIdx # 0 THEN printed + 1 ELSE printed
                /\ sessTick' = [k \in Keys |-> sessTick[k] + LogSum(r.log, k[1], k[2])]
                /\ sessLast' = [k \in Keys |->
                       IF LogSum(r.log, k[1], k[2]) > 0 THEN now ELSE sessLast[k]]
                /\ passed' = [k \in Keys |-> passed[k] + LogSum(r.log, k[1], k[2])]
                /\ lastOp' = [NoOp EXCEPT !.op = "heartbeat", !.err = failIdx # 0]
    /\ UNCHANGED <<now, closed, readyFired, readyPending, task, active, events>>

\* The while condition of heartbeat with bot.is_closed() true: the loop ends
heartbeat_exit(i) ==
    /\ UNCHANGED <<calls, reply>>
    /\ i \in 1..Len(tasks)
    /\ Due(tasks[i])
    /\ closed
    /\ tasks' = [tasks EXCEPT ![i] = [pc |-> "done", wake |-> @.wake]]
    /\ lastOp' = NoOp
    /\ UNCHANGED <<now, closed, readyFired, readyPending, task, active, db,
                   events, printed, sessTick, sessLast, passed>>

\* Cancellation.  The program never calls tracker.task.cancel(); the runner
\* of bot.run cancels the tasks still pending once the bot has closed.
\* CancelledError is thrown into the await the task is suspended in, and the
\* task ends (break at line 287, or out of the sleep of the except branch).
heartbeat_cancel(i) ==
    /\ UNCHANGED <<calls, reply>>
    /\ i \in 1..Len(tasks)
    /\ Alive(tasks[i])
    /\ closed
    /\ tasks' = [tasks EXCEPT ![i] = [pc |-> "cancelled", wake |-> @.wake]]
    /\ lastOp' = NoOp
    /\ UNCHANGED <<now, closed, readyFired, readyPending, task, active, db,
                   events, printed, sessTick, sessLast, passed>>

\* bot.close()
bot_close ==
    /\ UNCHANGED <<calls, reply>>
    /\ ~closed
    /\ closed' = TRUE
    /\ lastOp' = NoOp
    /\ UNCHANGED <<now, readyFired, readyPending, task, tasks, active, db,
                   events, printed, sessTick, sessLast, passed>>

\* a mutant of reaches_start: the error of add_time is swallowed
reaches_start_swallowed(same, after, raised) == ~same /\ after # None

\* Whether the handler calls tracker.start (line 340): the names differ,
\* after_name is set, and control got past line 336; the handler has no
\* try, so an error raised by add_time leaves it there.
reaches_start(same, after, raised) == ~same /\ after # None /\ ~raised

\* on_presence_update(before, after) for member u, with before_name and
\* after_name the results of get_playing_name.  failAt: where the add_time
\* of the handler raises (0: it does not).
on_presence_update(u, before, after, failAt) ==
    /\ UNCHANGED <<calls, reply>>
    /\ ~closed
    /\ readyFired > 0
    /\ Spent < Budget
    /\ events' = events + 1
    /\ LET same     == before = after
           doStop   == ~same /\ before # None
           had      == doStop /\ IsActive(active, u, before)
           st       == IF doStop THEN stop(active, u, before, now)
                       ELSE [active |-> active, elapsed |-> 0]
           doAdd    == doStop /\ st.elapsed > 0
           cr       == IF doAdd
                       THEN add_time(db, u, MemberName(u), before, st.elapsed, <<>>, now, failAt)
                       ELSE [db |-> db, raised |-> FALSE]
           doStart  == reaches_start(same, after, cr.raised)
           fresh    == doStart /\ ~IsActive(st.active, u, after)
           amt      == IF doAdd /\ ~cr.raised THEN st.elapsed ELSE 0
       IN  /\ failAt # 0 => doAdd
           /\ db' = cr.db
           /\ active' = IF doStart THEN start(st.active, u, after, now) ELSE st.active
           /\ sessTick' = [k \in Keys |->
                  IF (had /\ k = <<u, before>>) \/ (fresh /\ k = <<u, after>>) THEN 0
                  ELSE sessTick[k]]
           /\ sessLast' = [k \in Keys |->
                  IF fresh /\ k = <<u, after>> THEN now
                  ELSE IF had /\ k = <<u, before>> THEN 0
                  ELSE sessLast[k]]
           /\ passed' = [k \in Keys |->
                  IF doStop /\ k = <<u, before>> THEN passed[k] + amt ELSE passed[k]]
           /\ lastOp' = [NoOp EXCEPT !.op = "presence", !.stopped = doStop, !.had = had,
                  !.again = doStart /\ ~fresh, !.err = cr.raised,
                  !.fail = failAt, !.skip = cr.raised /\ after # None]
    /\ UNCHANGED <<now, closed, readyFired, readyPending, task, tasks, printed>>

\* The clock moves on.  The clock of a run starts at its first on_ready and
\* stops at bot.close(), and a runnable coroutine runs before the clock
\* moves: a due heartbeat task and an on_ready whose tree.sync() returned are
\* not delayed by a clock step.
Advance ==
    /\ UNCHANGED <<calls, reply>>
    /\ Spent < Budget
    /\ readyFired > 0
    /\ ~closed
    /\ readyPending = 0
    /\ \A i \in 1..Len(tasks) : ~Due(tasks[i])
    /\ now' = now + Quantum
    /\ lastOp' = NoOp
    /\ UNCHANGED <<closed, readyFired, readyPending, task, tasks, active, db,
                   events, printed, sessTick, sessLast, passed>>

\* the activities a member is seen playing
Played(u) == IF u = 1 THEN Activities ELSE {"Chess"}

Presence(u) == Played(u) \cup {None}

Next ==
    \/ on_ready_begin
    \/ on_ready_finish
    \/ \E i \in 1..Len(tasks), failIdx \in 0..4, failAt \in 1..4 :
          /\ (failIdx = 0 => failAt = 1)
          /\ heartbeat_tick(i, failIdx, failAt)
    \/ \E i \in 1..Len(tasks) : heartbeat_exit(i)
    \/ \E i \in 1..Len(tasks) : heartbeat_cancel(i)
    \/ bot_close
    \/ \E u \in Users : \E before \in Presence(u), after \in Presence(u), failAt \in FailPoints :
          on_presence_update(u, before, after, failAt)
    \/ Advance

Spec == Init /\ [][Next]_vars

\* The event loop runs a runnable heartbeat task, time passes, and
\* tree.sync() returns: the three steps the liveness of the loop rests on.
HeartbeatStep ==
    \E i \in 1..Len(tasks) :
        \/ heartbeat_exit(i)
        \/ \E failIdx \in 0..4, failAt \in 1..4 : heartbeat_tick(i, failIdx, failAt)

LiveSpec ==
    Spec /\ WF_vars(Advance) /\ WF_vars(HeartbeatStep) /\ WF_vars(on_ready_finish)

\* ------------------------------------------------------------------------
\* Reading the store and the session map
\* ------------------------------------------------------------------------
\* seconds of the totals row of (user, activity), 0 without a row
Total(d, k) == IF k \in DOMAIN d.totals THEN d.totals[k] ELSE 0

\* the daily_totals rows of (user, activity)
DailyRows(d, k) == {r \in DOMAIN d.daily_totals : r[1] = k[1] /\ r[2] = k[2]}

RECURSIVE SumOver(_, _)
SumOver(f, S) ==
    IF S = {} THEN 0
    ELSE LET x == CHOOSE y \in S : TRUE IN f[x] + SumOver(f, S \ {x})

\* SUM(seconds) over the daily_totals rows of (user, activity)
DailySum(d, k) == SumOver(d.daily_totals, DailyRows(d, k))

\* the session of (user, activity): <<>> when there is none, else <<started>>
Session(act, k) ==
    IF IsActive(act, k[1], k[2]) THEN <<StartedAt(act, k[1], k[2])>> ELSE <<>>

ActiveKeys == {k \in Keys : IsActive(active, k[1], k[2])}

\* the task tracker.task names is still running
HeartbeatRunning == task # 0 /\ Alive(tasks[task]) /\ ~closed

\* ------------------------------------------------------------------------
\* Store queries (lines 123-232)
\* ------------------------------------------------------------------------
\* "0000-01-01", the start of the window of an unrecognised period, as a day
\* ordinal on the scale of iso_date_local (day 0 is 1970-01-01)
FallbackDay == 0 - 719528

\* the period strings the slash commands offer (PERIOD_CHOICES)
ValidPeriods == {"today", "week", "month", "all"}

\* a mutant of WindowStart: timedelta(days=7) for a week
WindowStartWide(period, t) ==
    LET end == iso_date_local(t)
    IN  IF period = "today" THEN end
        ELSE IF period = "week" THEN end - 7
        ELSE IF period = "month" THEN end - 29
        ELSE FallbackDay

\* start of the date window of a period other than "all" (lines 134-145 and
\* 194-204): end for today, end - 6 days for week, end - 29 days for month,
\* "0000-01-01" for anything else
WindowStart(period, t) ==
    LET end == iso_date_local(t)
    IN  IF period = "today" THEN end
        ELSE IF period = "week" THEN end - 6
        ELSE IF period = "month" THEN end - 29
        ELSE FallbackDay

\* day BETWEEN ? AND ? with (start, end): the daily_totals keys in the window
InWindow(d, period, t) ==
    {r \in DOMAIN d.daily_totals :
        WindowStart(period, t) <= r[3] /\ r[3] <= iso_date_local(t)}

\* a mutant of Ranked: the rows in descending order without the LIMIT
RankedNoLimit(rows, limit) ==
    LET n == Cardinality(rows)
    IN  {p \in [1..n -> rows] :
            /\ \A i, j \in 1..n : i # j => p[i] # p[j]
            /\ \A i \in 1..(n - 1) : p[i].seconds >= p[i + 1].seconds}

\* ORDER BY seconds DESC LIMIT ?: the sequences the statement can return.
\* SQL leaves the order of rows with equal seconds open, so every
\* arrangement of a tie is a possible result; a negative LIMIT is no limit.
Ranked(rows, limit) ==
    LET n == Cardinality(rows)
        m == IF limit < 0 \/ limit > n THEN n ELSE limit
    IN  {SubSeq(p, 1, m) : p \in {q \in [1..n -> rows] :
            /\ \A i, j \in 1..n : i # j => q[i] # q[j]
            /\ \A i \in 1..(n - 1) : q[i].seconds >= q[i + 1].seconds}}

\* Store.top_activities(user_id, period, limit) at clock t: the possible
\* results, each a sequence of rows (activity, seconds)
top_activities(d, user_id, period, limit, t) ==
    IF period = "all"
    THEN Ranked({[activity |-> k[2], seconds |-> d.totals[k]] :
                    k \in {x \in DOMAIN d.totals : x[1] = user_id}}, limit)
    ELSE LET W == {r \in InWindow(d, period, t) : r[1] = user_id}
         IN  Ranked({[activity |-> a,
                      seconds |-> SumOver(d.daily_totals, {r \in W : r[2] = a})] :
                        a \in {r[2] : r \in W}}, limit)

\* Store.leaderboard(guild_user_ids, activity, period, limit) at clock t: the
\* possible results, each a sequence of rows (user_id, username, seconds).
\* activity is None for no filter.  JOIN guild_usernames keeps the users
\* with a name row; IN (...) keeps the users of the list.
leaderboard(d, guild_user_ids, activity, period, limit, t) ==
    IF guild_user_ids = <<>> THEN {<<>>}
    ELSE
        LET ids == {guild_user_ids[i] : i \in 1..Len(guild_user_ids)}
            U   == ids \cap DOMAIN d.guild_usernames
            T   == IF period = "all" THEN d.totals ELSE d.daily_totals
            src == {r \in (IF period = "all" THEN DOMAIN d.totals
                                               ELSE InWindow(d, period, t)) :
                       r[1] \in U /\ (activity = None \/ r[2] = activity)}
        IN  Ranked({[user_id |-> u, username |-> d.guild_usernames[u].username,
                     seconds |-> SumOver(T, {r \in src : r[1] = u})] :
                       u \in {r[1] : r \in src}}, limit)

\* ------------------------------------------------------------------------
\* The Store called directly: add_time with any seconds and any day, and the
\* two queries behind the slash commands /playtime and /leaderboard
\* ------------------------------------------------------------------------
\* direct add_time calls in a run
MaxCalls == 2

\* seconds passed to add_time: non-positive and positive
CallSeconds == {0 - Quantum, 0, Quantum, HEARTBEAT_SECONDS}

\* how many days before today a credit is dated: today, the two sides of the
\* week boundary, the two sides of the month boundary
DayOffsets(u, a) == IF u = 1 /\ a = "Chess" THEN {0, 6, 7, 29, 30} ELSE {0}

Periods == ValidPeriods \cup {"year"}

Limits == {1, 2}

\* the activity filters a leaderboard is asked for
Filters == {None, "Chess"}

\* the member lists a leaderboard is asked for
IdLists == {<<>>, <<2>>, <<1, 2>>}

\* store.add_time(u, str(member), a, s, when) with when off days before now
store_add_time(u, a, s, off, failAt) ==
    /\ calls < MaxCalls
    /\ calls' = calls + 1
    /\ failAt # 0 => s > 0
    /\ \E r \in {add_time(db, u, MemberName(u), a, s, <<now - off * DaySeconds>>, now, failAt)} :
          /\ db' = r.db
          /\ passed' = [passed EXCEPT ![<<u, a>>] = @ + (IF s > 0 /\ ~r.raised THEN s ELSE 0)]
          /\ reply' = [op |-> "add_time", positive |-> s > 0, raised |-> r.raised]
    /\ UNCHANGED <<now, closed, readyFired, readyPending, task, tasks, active, events,
                   printed, sessTick, sessLast, lastOp>>

\* store.top_activities(user_id, period, limit), the method behind /playtime;
\* the method takes any string as period
top_activities_call(u, period, limit) ==
    /\ \E rows \in top_activities(db, u, period, limit, now) :
          reply' = [op |-> "top_activities", ids |-> <<u>>, activity |-> None,
                    period |-> period, limit |-> limit, rows |-> rows, raised |-> FALSE]
    /\ UNCHANGED <<now, closed, readyFired, readyPending, task, tasks, active, db, events,
                   printed, sessTick, sessLast, passed, lastOp, calls>>

\* store.leaderboard(member_ids, activity, period, limit), the method behind
\* /leaderboard
leaderboard_call(ids, activity, period, limit) ==
    /\ \E rows \in leaderboard(db, ids, activity, period, limit, now) :
          reply' = [op |-> "leaderboard", ids |-> ids, activity |-> activity,
                    period |-> period, limit |-> limit, rows |-> rows, raised |-> FALSE]
    /\ UNCHANGED <<now, closed, readyFired, readyPending, task, tasks, active, db, events,
                   printed, sessTick, sessLast, passed, lastOp, calls>>

StoreNext ==
    \/ \E u \in Users, a \in Activities, s \in CallSeconds, failAt \in FailPoints :
          \E off \in DayOffsets(u, a) : store_add_time(u, a, s, off, failAt)
    \/ \E u \in Users, period \in Periods, limit \in Limits :
          top_activities_call(u, period, limit)
    \/ \E ids \in IdLists, activity \in Filters, period \in Periods, limit \in Limits :
          leaderboard_call(ids, activity, period, limit)

\* the store of a fresh file under any sequence of direct calls
StoreSpec == Init /\ [][StoreNext]_vars

\* ------------------------------------------------------------------------
\* Claims
\* ------------------------------------------------------------------------

\* C1: no double counting.  When the handler closes a session in a run
\* without a storage error, and the heartbeat ticks have credited the session exactly
\* the time from its start to its last credit (the tick at t=60 crediting
\* 60s), the seconds of the ticks plus the seconds the handler credits at the
\* stop equal the time between the start and the stop.
NoDoubleCounting ==
    [][\A u \in Users : \A before \in Played(u), after \in Presence(u) :
          (on_presence_update(u, before, after, 0) /\ before # after
             /\ IsActive(active, u, before)
             /\ printed = 0
             /\ sessTick[<<u, before>>]
                  = sessLast[<<u, before>>] - StartedAt(active, u, before))
          => sessTick[<<u, before>>] + (passed'[<<u, before>>] - passed[<<u, before>>])
               = now - StartedAt(active, u, before)]_vars

\* C2: additivity.  In every reachable state, for every (user, activity),
\* the seconds of the totals row equal the sum of the seconds of its
\* daily_totals rows, and both equal the sum of the positive amounts of the
\* add_time calls for that key that returned.
Additivity ==
    \A k \in Keys : Total(db, k) = DailySum(db, k) /\ Total(db, k) = passed[k]

\* a key credited on two calendar days, by more than one add_time
AdditivityWitness ==
    \E k \in Keys : Cardinality(DailyRows(db, k)) >= 2 /\ Total(db, k) > HEARTBEAT_SECONDS

\* C3: add_time is all-or-nothing.  A call that raises at any of its
\* statements or at the commit leaves the committed store as it was before
\* the call (in a tick: as the calls before it left it), and no committed
\* state shows a totals increment without its daily_totals increment and its
\* guild_usernames row.
AllOrNothing ==
    /\ [](\A k \in Keys :
            /\ Total(db, k) = DailySum(db, k)
            /\ Total(db, k) > 0 => k[1] \in DOMAIN db.guild_usernames)
    /\ [][/\ \A u \in Users : \A before \in Presence(u), after \in Presence(u), f \in 1..4 :
                on_presence_update(u, before, after, f) => db' = db
          /\ \A i \in 1..Len(tasks), failIdx \in 1..4, f \in 1..4 :
                heartbeat_tick(i, failIdx, f)
                => db' = RunTick(db, SubSeq(TickWork(active), 1, failIdx - 1),
                                 1, 0, 0, now).db]_vars

\* the handler's add_time raised at its third statement, after the totals
\* increment was executed inside the transaction
AllOrNothingWitness ==
    lastOp.op = "presence" /\ lastOp.err /\ lastOp.fail = 3

\* C4: a clean heartbeat tick credits every active session the time elapsed
\* since the session was last credited, or since its start.
TickCreditsElapsed ==
    [][\A i \in 1..Len(tasks) :
          heartbeat_tick(i, 0, 1)
          => \A k \in ActiveKeys : passed'[k] - passed[k] = now - sessLast[k]]_vars

\* C5: a clean heartbeat tick calls add_time exactly once for every active
\* session and never for a pair without a session.
TickCreditsOnce ==
    [][\A i \in 1..Len(tasks) :
          heartbeat_tick(i, 0, 1)
          => \A k \in Keys :
                LogCount(RunTick(db, TickWork(active), 1, 0, 0, now).log, k[1], k[2])
                  = IF k \in ActiveKeys THEN 1 ELSE 0]_vars

\* C6: crash data-loss bound.  While the heartbeat task runs, the time a
\* session has been active exceeds the seconds the ticks committed for it by
\* at most HEARTBEAT_SECONDS.
CrashLossBound ==
    HeartbeatRunning
    => \A k \in ActiveKeys :
          (now - StartedAt(active, k[1], k[2])) - sessTick[k] <= HEARTBEAT_SECONDS

\* C7: the heartbeat loop survives a failing tick.  A tick in which add_time
\* raises prints the error and leaves the task alive; the task ends only
\* once the bot has closed (the loop condition, or the cancellation at
\* shutdown); and from any state after a failing tick, while the task sleeps
\* in the except branch, a tick runs later, unless the bot closes or the run
\* ends first.
HeartbeatSurvives ==
    /\ [][\A i \in 1..Len(tasks) :
            /\ (Alive(tasks[i]) /\ ~Alive(tasks'[i])) => closed
            /\ \A failIdx \in 1..4, f \in 1..4 :
                  heartbeat_tick(i, failIdx, f)
                  => (printed' = printed + 1 /\ tasks'[i].pc = "errsleep")]_vars
    /\ (task # 0 /\ tasks[task].pc = "errsleep" /\ lastOp.op # "heartbeat")
          ~> (lastOp.op = "heartbeat" \/ closed \/ Spent = Budget)

\* a clean tick has just run after an error was printed
HeartbeatSurvivesWitness ==
    printed > 0 /\ lastOp.op = "heartbeat" /\ ~lastOp.err /\ HeartbeatRunning

\* C8: at most one heartbeat task is ever created, however often on_ready
\* fires, and tracker.task names it.
SingleHeartbeat ==
    /\ Len(tasks) <= 1
    /\ task = Len(tasks)

\* on_ready has run to its end twice and one task is running
SingleHeartbeatWitness ==
    readyFired >= 2 /\ readyPending = 0 /\ Len(tasks) = 1 /\ Alive(tasks[1])

\* C9: idempotent start.  No user has two entries for one activity, and a
\* presence event that names an already active session as the current
\* activity leaves that session and its started_at as they were.
IdempotentStart ==
    /\ [](\A u \in Users : \A i, j \in 1..Len(active[u]) :
            i # j => active[u][i].activity # active[u][j].activity)
    /\ [][\A u \in Users : \A before \in Presence(u), after \in Played(u), f \in FailPoints :
            (on_presence_update(u, before, after, f) /\ IsActive(active, u, after))
            => Session(active', <<u, after>>) = Session(active, <<u, after>>)]_vars

\* start has just been called on a session that began at an earlier instant
IdempotentStartWitness ==
    /\ lastOp.op = "presence" /\ lastOp.again
    /\ ActiveKeys # {}
    /\ \A k \in ActiveKeys : StartedAt(active, k[1], k[2]) < now

\* C10: stop without start.  A presence event whose previous activity has no
\* session gets 0 from stop, which leaves the session map as it is; the
\* handler then calls no add_time, so the store is unchanged, and no session
\* but the one of the current activity changes.
StopWithoutStart ==
    [][\A u \in Users : \A before \in Played(u), after \in Presence(u), f \in FailPoints :
          (on_presence_update(u, before, after, f) /\ before # after
             /\ ~IsActive(active, u, before))
          => /\ stop(active, u, before, now).elapsed = 0
             /\ stop(active, u, before, now).active = active
             /\ db' = db
             /\ passed' = passed
             /\ \A k \in Keys :
                   k # <<u, after>> => Session(active', k) = Session(active, k)]_vars

\* the handler has just called stop for a pair without a session, on a
\* store that holds credited time and after the clock has moved
StopWithoutStartWitness ==
    /\ lastOp.op = "presence" /\ lastOp.stopped /\ ~lastOp.had
    /\ db.totals # EmptyTable
    /\ now > StartClock

\* C11: counters are monotone.  No step lowers the seconds of a totals or
\* daily_totals row or deletes a row, and a step that is an add_time call
\* with seconds <= 0 (it counts a call and records a non-positive amount)
\* changes none of totals, daily_totals and guild_usernames.
MonotoneCounters ==
    [][/\ \A k \in DOMAIN db.totals :
            k \in DOMAIN db'.totals /\ db'.totals[k] >= db.totals[k]
       /\ \A r \in DOMAIN db.daily_totals :
            r \in DOMAIN db'.daily_totals /\ db'.daily_totals[r] >= db.daily_totals[r]
       /\ (calls' = calls + 1 /\ reply'.op = "add_time" /\ ~reply'.positive)
            => db' = db]_vars

\* add_time has just been called with seconds <= 0 on a store that holds rows
MonotoneCountersWitness ==
    reply.op = "add_time" /\ ~reply.positive /\ db.totals # EmptyTable

\* C12: a period other than today, week, month and all is rejected.  A
\* top_activities or leaderboard call with such a period, on a store that
\* holds a row of the asked user older than every named window, raises and
\* returns no rows.
InvalidPeriodRejected ==
    [][/\ \A u \in Users, period \in Periods \ ValidPeriods, limit \in Limits :
            (top_activities_call(u, period, limit)
               /\ \E r \in DOMAIN db.daily_totals :
                      r[1] = u /\ r[3] < WindowStart("month", now))
            => (reply'.raised /\ reply'.rows = <<>>)
       /\ \A ids \in IdLists, activity \in Filters, period \in Periods \ ValidPeriods,
             limit \in Limits :
            (leaderboard_call(ids, activity, period, limit)
               /\ \E r \in DOMAIN db.daily_totals :
                      /\ \E i \in 1..Len(ids) : ids[i] = r[1]
                      /\ r[3] < WindowStart("month", now))
            => (reply'.raised /\ reply'.rows = <<>>)]_vars

\* the days a named period spans, today included
SpanDays(period) == IF period = "today" THEN 1 ELSE IF period = "week" THEN 7 ELSE 30

\* the seconds recorded for a user (and an activity, unless None) on the
\* days d with today - (k - 1) <= d <= today, k the span of the period
Recorded(u, activity, period) ==
    SumOver(db.daily_totals,
            {r \in DOMAIN db.daily_totals :
                /\ r[1] = u
                /\ activity = None \/ r[2] = activity
                /\ iso_date_local(now) - (SpanDays(period) - 1) <= r[3]
                /\ r[3] <= iso_date_local(now)})

\* C13: window boundaries.  reply holds the last query and what it
\* returned, and a query leaves the store as it is.  For period today, week
\* and month the seconds of every row top_activities and leaderboard return
\* are the sum of exactly the daily_totals rows dated today - (k - 1) to
\* today with k = 1, 7, 30, and when the limit does not cut the result every
\* activity (user of the list) with such rows is returned.
WindowBoundaries ==
    /\ (reply.op = "top_activities" /\ reply.period \in {"today", "week", "month"})
       => /\ \A i \in 1..Len(reply.rows) :
                reply.rows[i].seconds
                  = Recorded(reply.ids[1], reply.rows[i].activity, reply.period)
          /\ Len(reply.rows) < reply.limit
               => \A a \in Activities :
                     Recorded(reply.ids[1], a, reply.period) > 0
                     => \E i \in 1..Len(reply.rows) : reply.rows[i].activity = a
    /\ (reply.op = "leaderboard" /\ reply.period \in {"today", "week", "month"})
       => /\ \A i \in 1..Len(reply.rows) :
                reply.rows[i].seconds
                  = Recorded(reply.rows[i].user_id, reply.activity, reply.period)
          /\ Len(reply.rows) < reply.limit
               => \A j \in 1..Len(reply.ids) :
                     Recorded(reply.ids[j], reply.activity, reply.period) > 0
                     => \E i \in 1..Len(reply.rows) : reply.rows[i].user_id = reply.ids[j]

\* a week query has just returned the seconds of the row dated today - 6 of
\* a user who also has a row dated today - 7
WindowBoundariesWitness ==
    /\ reply.op = "top_activities" /\ reply.period = "week" /\ reply.ids = <<1>>
    /\ <<1, "Chess", iso_date_local(now) - 6>> \in DOMAIN db.daily_totals
    /\ <<1, "Chess", iso_date_local(now) - 7>> \in DOMAIN db.daily_totals
    /\ reply.rows = <<[activity |-> "Chess",
                       seconds |-> db.daily_totals[<<1, "Chess", iso_date_local(now) - 6>>]]>>

\* SUM(seconds) over the totals rows of a user
UserTotal(d, u) == SumOver(d.totals, {k \in DOMAIN d.totals : k[1] = u})

\* C14: the leaderboard result.  For every store, id list, activity filter,
\* period and limit, the rows leaderboard returns are non-increasing by
\* seconds, at most limit many, name only users of the id list, and have
\* seconds above zero; an empty id list gives an empty result.
LeaderboardShape ==
    reply.op = "leaderboard"
    => /\ \A i \in 1..(Len(reply.rows) - 1) :
             reply.rows[i].seconds >= reply.rows[i + 1].seconds
       /\ Len(reply.rows) <= reply.limit
       /\ \A i \in 1..Len(reply.rows) :
             /\ \E j \in 1..Len(reply.ids) : reply.ids[j] = reply.rows[i].user_id
             /\ reply.rows[i].seconds > 0
       /\ reply.ids = <<>> => reply.rows = <<>>

\* an all-time leaderboard of both users with limit 1 has just returned the
\* one of them with the larger total, the other having recorded time too
LeaderboardShapeWitness ==
    /\ reply.op = "leaderboard" /\ reply.ids = <<1, 2>> /\ reply.limit = 1
    /\ reply.period = "all" /\ reply.activity = None
    /\ UserTotal(db, 2) > 0
    /\ UserTotal(db, 1) > UserTotal(db, 2)
    /\ reply.rows = <<[user_id |-> 1, username |-> MemberName(1), seconds |-> UserTotal(db, 1)]>>

\* C15: the frame of the event handler.  An event with previous = current
\* changes neither the session map nor the store.  An event with previous #
\* current leaves (user, previous) without a session, opens (user, current)
\* unless the credit raised, and leaves every other session of the user and
\* every session of the other users with its entry and its timestamp.
HandlerFrame ==
    [][\A u \in Users : \A before \in Presence(u), after \in Presence(u), f \in FailPoints :
          on_presence_update(u, before, after, f)
          => /\ before = after => (active' = active /\ db' = db)
             /\ before # after
                  => /\ \A k \in Keys :
                           (k # <<u, before>> /\ k # <<u, after>>)
                           => Session(active', k) = Session(active, k)
                     /\ before # None => ~IsActive(active', u, before)
                     /\ (after # None /\ f = 0) => IsActive(active', u, after)]_vars

\* the handler has just closed a session while two other sessions stay open
HandlerFrameWitness ==
    lastOp.op = "presence" /\ lastOp.had /\ Cardinality(ActiveKeys) >= 2

DeterministicRanking ==
    reply.op = "top_activities"
    => /\ \A i \in 1..(Len(reply.rows) - 1) :
             reply.rows[i].seconds >= reply.rows[i + 1].seconds
       /\ top_activities(db, reply.ids[1], reply.period, reply.limit, now) = {reply.rows}

\* C18: the heartbeat never credits a closed session.  A tick, whatever the
\* handlers did before it, issues no add_time for a (user, activity) pair
\* that has no session when the tick runs (stop has removed it and no start
\* has opened it again), and commits no seconds for such a pair.
NoCreditAfterStop ==
    [][\A i \in 1..Len(tasks), failIdx \in 0..4, f \in 1..4 :
          heartbeat_tick(i, failIdx, f)
          => \A k \in Keys \ ActiveKeys :
                /\ passed'[k] = passed[k]
                /\ LogCount(RunTick(db, TickWork(active), 1, failIdx, f, now).log,
                            k[1], k[2]) = 0]_vars

\* a tick has just credited an open session while another pair, credited
\* earlier, has no session any more
NoCreditAfterStopWitness ==
    /\ lastOp.op = "heartbeat"
    /\ \E k \in Keys \ ActiveKeys : passed[k] > 0
    /\ \E k \in ActiveKeys : sessTick[k] > 0 /\ sessLast[k] = now

\* the counter rows a leaderboard query reads for a user, before the join:
\* the user's totals rows for "all", else the user's daily_totals rows in
\* the window, of the activity unless None
CounterRows(d, u, activity, period, t) ==
    {r \in (IF period = "all" THEN DOMAIN d.totals ELSE InWindow(d, period, t)) :
        r[1] = u /\ (activity = None \/ r[2] = activity)}

\* C19: every user with a totals or daily_totals row has a guild_usernames
\* row, in every reachable store, so the join of leaderboard drops nobody:
\* when the limit does not cut the result, every user of the id list with
\* counter rows in the window is in the result.
NamesCoverCounters ==
    /\ \A k \in DOMAIN db.totals : k[1] \in DOMAIN db.guild_usernames
    /\ \A r \in DOMAIN db.daily_totals : r[1] \in DOMAIN db.guild_usernames
    /\ (reply.op = "leaderboard" /\ Len(reply.rows) < reply.limit)
       => \A j \in 1..Len(reply.ids) :
             CounterRows(db, reply.ids[j], reply.activity, reply.period, now) # {}
             => \E i \in 1..Len(reply.rows) : reply.rows[i].user_id = reply.ids[j]

\* a leaderboard over both users has just returned both
NamesCoverCountersWitness ==
    /\ reply.op = "leaderboard" /\ reply.ids = <<1, 2>>
    /\ Len(reply.rows) = 2
    /\ {reply.rows[1].user_id, reply.rows[2].user_id} = {1, 2}

\* C20: a storage error in the handler's credit.  When add_time raises
\* while the handler credits the previous activity, the error leaves the
\* handler, the session (user, previous) is gone, nothing of the credit is
\* committed, and start is not called: the session map is the one stop left.
HandlerErrorPropagates ==
    [][\A u \in Users : \A before \in Played(u), after \in Presence(u), f \in 1..4 :
          on_presence_update(u, before, after, f)
          => /\ lastOp'.err
             /\ ~IsActive(active', u, before)
             /\ db' = db /\ passed' = passed
             /\ active' = stop(active, u, before, now).active]_vars

\* the handler's add_time has just raised on the way to a start
HandlerErrorPropagatesWitness ==
    lastOp.op = "presence" /\ lastOp.err /\ lastOp.skip /\ lastOp.had

====
